---- MODULE Spec2Model ----
(***************************************************************************)
(* Certosaurus certificate portal: the three tables of                     *)
(* certificates/models.py, the request handlers of certificates/views.py,  *)
(* the form validation of certificates/forms.py and the certificate        *)
(* construction of certificates/cert_utils.py.                             *)
(*                                                                         *)
(* Time is counted in ticks of the clock, TicksPerDay to the day.  A        *)
(* primary key stands for a uuid4() value: a fresh number each time a      *)
(* model instance is constructed.  An RSA key is                           *)
(* identified by the primary key of the record it was generated for, an    *)
(* X.509 certificate is the record of the builder calls made for it, and a *)
(* PEM text is the sequence of its PEM blocks.                             *)
(***************************************************************************)
EXTENDS Integers, Sequences, FiniteSets, TLC

VARIABLES
    ca,        \* table CertificateAuthority: pk -> row
    server,    \* table ServerCertificate:    pk -> row
    client,    \* table ClientCertificate:    pk -> row
    now,       \* timezone.now() / datetime.utcnow(), in ticks
    next_pk,   \* number of uuid4() primary keys handed out so far
    response,  \* what the last finished request did and answered
    req        \* requests in flight: worker -> handler position and locals

vars == <<ca, server, client, now, next_pk, response, req>>

----------------------------------------------------------------------------
(* Bounds of the model *)

MaxPk == 3
MaxNow == 5

(* Program constants *)

NULL == 0
MinValidityDays == 1
CaMaxValidityDays == 7300
ServerMaxValidityDays == 825
ClientMaxValidityDays == 1095
TicksPerDay == 2
RootPathLength == 1
IntermediatePathLength == 0

KeySizeChoices == {2048, 4096}

REASON_CHOICES ==
    {"unspecified", "key_compromise", "ca_compromise", "affiliation_changed",
     "superseded", "cessation_of_operation"}

STATUS_CHOICES == {"pending", "active", "expired", "revoked"}

StatusDefault == "pending"

(* Inputs the requests are drawn from.  A comma-separated text is the       *)
(* sequence of its pieces, each piece a body with blanks around it.         *)

Piece(pad, body) == [pad |-> pad, body |-> body]

CaIdentities ==
    {[name |-> "R", common_name |-> "Root CN"],
     [name |-> "I", common_name |-> "Issuing CN"],
     [name |-> "J", common_name |-> "Issuing CN"]}
LeafNames == {"leaf"}
LeafCommonNames == {"www.example.com"}
Organizations == {""}
Emails == {"u@example.com"}
BundleInputs == {TRUE}
\* (validity_days, key_size) a form accepts, and one of each kind it refuses
GoodSizes(max_days) ==
    {[validity_days |-> MinValidityDays, key_size |-> 2048]}
BadSizes(max_days) ==
    {[validity_days |-> MinValidityDays - 1, key_size |-> 2048],
     [validity_days |-> max_days + 1, key_size |-> 4096],
     [validity_days |-> MinValidityDays, key_size |-> 1024]}
SanDnsInputs == {<<Piece(0, "www.example.com"), Piece(1, "api.example.com")>>}
SanIpInputs == {<<Piece(0, "10.0.0.1")>>, <<Piece(0, "10.0.0.1"), Piece(1, "bad")>>}
ReasonInputs == {"unspecified", "key_compromise", "bogus"}
PkInputs == 1..MaxPk
Faults == {"none", "keygen", "sign", "save"}
ClientFaults == Faults \cup {"p12"}
Workers == {"w1", "w2"}

----------------------------------------------------------------------------
(* certificates/cert_utils.py *)

None == << >>
Some(x) == <<x>>

\* rsa.generate_private_key: a fresh key, named after the record it is made for
generate_private_key(key_size, kid) ==
    [kid |-> kid, bits |-> key_size, half |-> "private"]

public_key_of(private_key) ==
    [kid |-> private_key.kid, bits |-> private_key.bits, half |-> "public"]

serialize_private_key(private_key) ==
    << [label |-> "RSA PRIVATE KEY", der |-> private_key] >>

serialize_certificate(certificate) ==
    << [label |-> "CERTIFICATE", der |-> certificate] >>

\* x509.load_pem_x509_certificate raises ValueError when no CERTIFICATE block is found
CanLoadCertificate(pem_data) ==
    /\ Len(pem_data) >= 1
    /\ pem_data[1].label = "CERTIFICATE"

load_certificate_from_pem(pem_data) == pem_data[1].der

CanLoadPrivateKey(pem_data) ==
    /\ Len(pem_data) >= 1
    /\ pem_data[1].label = "RSA PRIVATE KEY"

load_private_key_from_pem(pem_data) == pem_data[1].der

Attr(oid, value) == IF value # "" THEN << [oid |-> oid, value |-> value] >> ELSE << >>

build_subject_name(common_name, organization, organizational_unit, country, state, locality, email) ==
    << [oid |-> "CN", value |-> common_name] >>
        \o Attr("O", organization)
        \o Attr("OU", organizational_unit)
        \o Attr("C", country)
        \o Attr("ST", state)
        \o Attr("L", locality)
        \o Attr("emailAddress", email)

\* timedelta(days=days), in ticks
\* a timedelta that is one day whatever it is asked for
timedelta_of_one_day(days) == TicksPerDay

timedelta(days) == days * TicksPerDay

\* an X.509 time rounded up to the next whole unit
x509_time_up(t) == t + ((TicksPerDay - (t % TicksPerDay)) % TicksPerDay)

\* The time a certificate carries once it is encoded: an X.509 time has no
\* fraction, what datetime.utcnow() has below the unit is dropped.  The unit
\* (a second in the program) is a day in the model.
x509_time(t) == t - (t % TicksPerDay)

CaKeyUsage == {"digital_signature", "key_cert_sign", "crl_sign"}
LeafKeyUsage == {"digital_signature", "key_encipherment"}

\* parent_cert and parent_key are None or Some(x); utcnow is datetime.utcnow()
\* a generator that gives every CA the path length of an intermediate
generate_ca_certificate_flat(common_name, organization, validity_days, key_size, parent_cert, parent_key, kid, utcnow) ==
    LET private_key == generate_private_key(key_size, kid)
        public_key == public_key_of(private_key)
        subject == build_subject_name(common_name, organization, "", "US", "", "", "")
        root == parent_cert = None \/ parent_key = None
        issuer == IF root THEN subject ELSE parent_cert[1].subject
        signing_key == IF root THEN private_key ELSE parent_key[1]
        path_length == IntermediatePathLength
    IN  [certificate |->
            [subject |-> subject,
             issuer |-> issuer,
             public_key |-> public_key,
             not_valid_before |-> x509_time(utcnow),
             not_valid_after |-> x509_time(utcnow + timedelta(validity_days)),
             ca |-> TRUE,
             path_length |-> Some(path_length),
             key_usage |-> CaKeyUsage,
             extended_key_usage |-> {},
             san |-> << >>,
             ski |-> public_key,
             aki |-> IF parent_cert # None
                     THEN Some(parent_cert[1].public_key) ELSE None,
             signed_with |-> signing_key],
         private_key |-> private_key]

generate_ca_certificate(common_name, organization, validity_days, key_size, parent_cert, parent_key, kid, utcnow) ==
    LET private_key == generate_private_key(key_size, kid)
        public_key == public_key_of(private_key)
        subject == build_subject_name(common_name, organization, "", "US", "", "", "")
        root == parent_cert = None \/ parent_key = None
        issuer == IF root THEN subject ELSE parent_cert[1].subject
        signing_key == IF root THEN private_key ELSE parent_key[1]
        path_length == IF root THEN RootPathLength ELSE IntermediatePathLength
    IN  [certificate |->
            [subject |-> subject,
             issuer |-> issuer,
             public_key |-> public_key,
             not_valid_before |-> x509_time(utcnow),
             not_valid_after |-> x509_time(utcnow + timedelta(validity_days)),
             ca |-> TRUE,
             path_length |-> Some(path_length),
             key_usage |-> CaKeyUsage,
             extended_key_usage |-> {},
             san |-> << >>,
             ski |-> public_key,
             aki |-> IF parent_cert # None
                     THEN Some(parent_cert[1].public_key) ELSE None,
             signed_with |-> signing_key],
         private_key |-> private_key]

IpLiterals == {"10.0.0.1", "192.168.1.1", "::1"}

\* ipaddress.ip_address raises ValueError on anything that is no IPv4/IPv6 literal
CanParseIp(ip_str) == ip_str \in IpLiterals

RECURSIVE SanDnsEntriesKeepingCommonName(_, _)
\* the loop without the comparison with common_name
SanDnsEntriesKeepingCommonName(san_dns_names, common_name) ==
    IF san_dns_names = << >> THEN << >>
    ELSE LET dns_name == Head(san_dns_names)
             rest == SanDnsEntriesKeepingCommonName(Tail(san_dns_names), common_name)
         IN  IF dns_name # ""
             THEN <<[type |-> "DNS", value |-> dns_name]>> \o rest
             ELSE rest

RECURSIVE SanDnsEntries(_, _)
\* cert_utils.py 222-225: the names other than common_name, in order
SanDnsEntries(san_dns_names, common_name) ==
    IF san_dns_names = << >> THEN << >>
    ELSE LET dns_name == Head(san_dns_names)
             rest == SanDnsEntries(Tail(san_dns_names), common_name)
         IN  IF dns_name # "" /\ dns_name # common_name
             THEN <<[type |-> "DNS", value |-> dns_name]>> \o rest
             ELSE rest

RECURSIVE SanIpEntries(_)
SanIpEntries(san_ip_addresses) ==
    IF san_ip_addresses = << >> THEN << >>
    ELSE LET ip_str == Head(san_ip_addresses)
             rest == SanIpEntries(Tail(san_ip_addresses))
         IN  IF ip_str # ""
             THEN <<[type |-> "IP", value |-> ip_str]>> \o rest
             ELSE rest

\* a loop that parses the first address only
SanIpRaisesOnFirst(san_ip_addresses) ==
    /\ san_ip_addresses # << >>
    /\ san_ip_addresses[1] # ""
    /\ ~CanParseIp(san_ip_addresses[1])

\* whether some ip_address(ip_str) of the loop at cert_utils.py 228-230 raises
SanIpRaises(san_ip_addresses) ==
    \E i \in 1..Len(san_ip_addresses) :
        san_ip_addresses[i] # "" /\ ~CanParseIp(san_ip_addresses[i])

generate_server_certificate(common_name, ca_cert, ca_key, san_dns_names, san_ip_addresses, organization, validity_days, key_size, kid, utcnow) ==
    LET private_key == generate_private_key(key_size, kid)
        public_key == public_key_of(private_key)
        subject == build_subject_name(common_name, organization, "", "US", "", "", "")
        san_entries == <<[type |-> "DNS", value |-> common_name]>>
                           \o SanDnsEntries(san_dns_names, common_name)
                           \o SanIpEntries(san_ip_addresses)
    IN  [certificate |->
            [subject |-> subject,
             issuer |-> ca_cert.subject,
             public_key |-> public_key,
             not_valid_before |-> x509_time(utcnow),
             not_valid_after |-> x509_time(utcnow + timedelta(validity_days)),
             ca |-> FALSE,
             path_length |-> None,
             key_usage |-> LeafKeyUsage,
             extended_key_usage |-> {"SERVER_AUTH"},
             san |-> san_entries,
             ski |-> public_key,
             aki |-> Some(ca_cert.public_key),
             signed_with |-> ca_key],
         private_key |-> private_key]

\* a client generator that signs with the key it has just made
generate_client_certificate_self_signed(common_name, ca_cert, ca_key, email, organization, validity_days, key_size, kid, utcnow) ==
    LET private_key == generate_private_key(key_size, kid)
        public_key == public_key_of(private_key)
        subject == build_subject_name(common_name, organization, "", "US", "", "", email)
    IN  [certificate |->
            [subject |-> subject,
             issuer |-> ca_cert.subject,
             public_key |-> public_key,
             not_valid_before |-> x509_time(utcnow),
             not_valid_after |-> x509_time(utcnow + timedelta(validity_days)),
             ca |-> FALSE,
             path_length |-> None,
             key_usage |-> LeafKeyUsage,
             extended_key_usage |-> {"CLIENT_AUTH"},
             san |-> IF email # "" THEN <<[type |-> "RFC822", value |-> email]>> ELSE << >>,
             ski |-> public_key,
             aki |-> Some(ca_cert.public_key),
             signed_with |-> private_key],
         private_key |-> private_key]

generate_client_certificate(common_name, ca_cert, ca_key, email, organization, validity_days, key_size, kid, utcnow) ==
    LET private_key == generate_private_key(key_size, kid)
        public_key == public_key_of(private_key)
        subject == build_subject_name(common_name, organization, "", "US", "", "", email)
    IN  [certificate |->
            [subject |-> subject,
             issuer |-> ca_cert.subject,
             public_key |-> public_key,
             not_valid_before |-> x509_time(utcnow),
             not_valid_after |-> x509_time(utcnow + timedelta(validity_days)),
             ca |-> FALSE,
             path_length |-> None,
             key_usage |-> LeafKeyUsage,
             extended_key_usage |-> {"CLIENT_AUTH"},
             san |-> IF email # "" THEN <<[type |-> "RFC822", value |-> email]>> ELSE << >>,
             ski |-> public_key,
             aki |-> Some(ca_cert.public_key),
             signed_with |-> ca_key],
         private_key |-> private_key]

create_p12_bundle(certificate, private_key, ca_cert, password, friendly_name) ==
    [name |-> friendly_name,
     key |-> private_key,
     cert |-> certificate,
     cas |-> <<ca_cert>>,
     encrypted_with |-> password]

\* secrets.token_urlsafe(16): a non-empty random text, fresh for each call
generate_random_password(kid) == <<"token", kid>>

----------------------------------------------------------------------------
(* certificates/models.py *)

RECURSIVE StripNonEmpty(_)
\* [s.strip() for s in text.split(',') if s.strip()]
StripNonEmpty(pieces) ==
    IF pieces = << >> THEN << >>
    ELSE IF Head(pieces).body # ""
         THEN <<Head(pieces).body>> \o StripNonEmpty(Tail(pieces))
         ELSE StripNonEmpty(Tail(pieces))

get_san_dns_list(row) ==
    IF row.san_dns_names # << >> THEN StripNonEmpty(row.san_dns_names) ELSE << >>

get_san_ip_list(row) ==
    IF row.san_ip_addresses # << >> THEN StripNonEmpty(row.san_ip_addresses) ELSE << >>

\* is_valid with the upper end of the validity window left out
is_valid_before_end(row, t) ==
    IF row.status # "active" THEN FALSE
    ELSE IF row.valid_from # NULL /\ row.valid_until # NULL
         THEN row.valid_from <= t /\ t < row.valid_until
         ELSE FALSE

\* models.py 156-170, 262-276: the is_valid property of a row, read at time t
is_valid(row, t) ==
    IF row.status # "active" THEN FALSE
    ELSE IF row.valid_from # NULL /\ row.valid_until # NULL
         THEN row.valid_from <= t /\ t <= row.valid_until
         ELSE FALSE

\* a manager that leaves revoked certificates out
client_certificates_not_revoked(clientT, pk) ==
    {c \in DOMAIN clientT : clientT[c].issuing_ca = pk /\ clientT[c].status # "revoked"}

\* the related managers ca.server_certificates, ca.client_certificates, ca.child_cas
server_certificates(serverT, pk) == {s \in DOMAIN serverT : serverT[s].issuing_ca = pk}
client_certificates(clientT, pk) == {c \in DOMAIN clientT : clientT[c].issuing_ca = pk}
child_cas(caT, pk) == {c \in DOMAIN caT : caT[c].parent_ca = pk}

\* a new CertificateAuthority() instance: the field defaults of the model
NewCertificateAuthority(pk, form) ==
    [id |-> pk,
     name |-> form.name,
     common_name |-> form.common_name,
     organization |-> form.organization,
     certificate_pem |-> << >>,
     private_key_pem |-> << >>,
     valid_from |-> NULL,
     valid_until |-> NULL,
     parent_ca |-> form.parent_ca,
     is_root |-> TRUE]

NewServerCertificate(pk, form) ==
    [id |-> pk,
     name |-> form.name,
     common_name |-> form.common_name,
     san_dns_names |-> form.san_dns_names,
     san_ip_addresses |-> form.san_ip_addresses,
     organization |-> form.organization,
     certificate_pem |-> << >>,
     private_key_pem |-> << >>,
     csr_pem |-> << >>,
     certificate_chain_pem |-> << >>,
     issuing_ca |-> form.issuing_ca,
     valid_from |-> NULL,
     valid_until |-> NULL,
     key_size |-> form.key_size,
     status |-> StatusDefault,
     revoked_at |-> NULL,
     revocation_reason |-> ""]

NewClientCertificate(pk, form) ==
    [id |-> pk,
     name |-> form.name,
     common_name |-> form.common_name,
     email |-> form.email,
     organization |-> form.organization,
     certificate_pem |-> << >>,
     private_key_pem |-> << >>,
     csr_pem |-> << >>,
     p12_bundle |-> None,
     p12_password |-> << >>,
     issuing_ca |-> form.issuing_ca,
     valid_from |-> NULL,
     valid_until |-> NULL,
     key_size |-> form.key_size,
     status |-> StatusDefault,
     revoked_at |-> NULL,
     revocation_reason |-> ""]

----------------------------------------------------------------------------
(* The database under the ORM *)

Put(table, row) == [k \in DOMAIN table \cup {row.id} |-> IF k = row.id THEN row ELSE table[k]]

Without(table, pks) == [k \in DOMAIN table \ pks |-> table[k]]

\* an INSERT that checks the foreign key and not the unique name
CaInsertAllowedAnyName(caT, row) ==
    row.parent_ca = NULL \/ row.parent_ca \in DOMAIN caT

\* INSERT into the CA table: name is unique, parent_ca is a foreign key
CaInsertAllowed(caT, row) ==
    /\ \A k \in DOMAIN caT : caT[k].name # row.name
    /\ row.parent_ca = NULL \/ row.parent_ca \in DOMAIN caT


\* the issuing_ca column without its foreign-key constraint
LeafWriteUnchecked(caT, row) == TRUE

\* INSERT or UPDATE of a leaf row: issuing_ca is a non-null foreign key
LeafWriteAllowed(caT, row) == row.issuing_ca \in DOMAIN caT

RECURSIVE Collect(_, _)
\* Model.delete with on_delete=CASCADE: the CAs reached from pks through parent_ca
Collect(caT, pks) ==
    LET more == pks \cup {c \in DOMAIN caT : caT[c].parent_ca \in pks}
    IN  IF more = pks THEN pks ELSE Collect(caT, more)

----------------------------------------------------------------------------
(* certificates/forms.py *)

\* the field names under which form.errors reports the request
CertificateAuthorityFormErrors(caT, form) ==
    {f \in {"name"} : form.name = "" \/ \E k \in DOMAIN caT : caT[k].name = form.name}
    \cup {f \in {"common_name"} : form.common_name = ""}
    \cup {f \in {"parent_ca"} : form.parent_ca # NULL /\ form.parent_ca \notin DOMAIN caT}
    \cup {f \in {"validity_days"} : form.validity_days < MinValidityDays
                                      \/ form.validity_days > CaMaxValidityDays}
    \cup {f \in {"key_size"} : form.key_size \notin KeySizeChoices}

CertificateAuthorityFormValid(caT, form) == CertificateAuthorityFormErrors(caT, form) = {}

\* the fields a leaf form checks, with the largest validity_days it accepts
LeafFormErrors(caT, form, max_days) ==
    {f \in {"name"} : form.name = ""}
    \cup {f \in {"common_name"} : form.common_name = ""}
    \cup {f \in {"issuing_ca"} : form.issuing_ca \notin DOMAIN caT}
    \cup {f \in {"validity_days"} : form.validity_days < MinValidityDays
                                      \/ form.validity_days > max_days}
    \cup {f \in {"key_size"} : form.key_size \notin KeySizeChoices}

\* the server form without the upper bound on validity_days
ServerCertificateFormNoMax(caT, form) ==
    LeafFormErrors(caT, form, form.validity_days)

ServerCertificateFormErrors(caT, form) ==
    LeafFormErrors(caT, form, ServerMaxValidityDays)

ServerCertificateFormValid(caT, form) == ServerCertificateFormErrors(caT, form) = {}

ClientCertificateFormErrors(caT, form) ==
    LeafFormErrors(caT, form, ClientMaxValidityDays)

ClientCertificateFormValid(caT, form) == ClientCertificateFormErrors(caT, form) = {}


\* the revoke form with reason as a free text field
RevokeCertificateFormAnyReason(form) == form.confirm

RevokeCertificateFormValid(form) ==
    /\ form.reason \in REASON_CHOICES
    /\ form.confirm

CaForm(i, o, p, z) ==
    [name |-> i.name, common_name |-> i.common_name, organization |-> o,
     parent_ca |-> p, validity_days |-> z.validity_days, key_size |-> z.key_size]

\* every identity under every parent
CaForms ==
    {CaForm(i, o, p, z) : i \in CaIdentities, o \in Organizations,
                          p \in {NULL} \cup PkInputs, z \in GoodSizes(CaMaxValidityDays)}

\* root requests with a validity_days or a key_size the form does not accept
CaSizeForms ==
    {CaForm(i, o, NULL, z) : i \in {j \in CaIdentities : j.name = "R"}, o \in Organizations,
                             z \in BadSizes(CaMaxValidityDays)}

ServerForm(n, c, o, d, a, p, z) ==
    [name |-> n, common_name |-> c, organization |-> o, san_dns_names |-> d,
     san_ip_addresses |-> a, issuing_ca |-> p, validity_days |-> z.validity_days,
     key_size |-> z.key_size]

\* every SAN text under every CA
ServerForms ==
    {ServerForm(n, c, o, d, a, p, z) :
        n \in LeafNames, c \in LeafCommonNames, o \in Organizations,
        d \in SanDnsInputs, a \in SanIpInputs, p \in PkInputs,
        z \in GoodSizes(ServerMaxValidityDays)}

ServerSizeForms ==
    {ServerForm(n, c, o, d, <<Piece(0, "10.0.0.1")>>, p, z) :
        n \in LeafNames, c \in LeafCommonNames, o \in Organizations,
        d \in SanDnsInputs, p \in PkInputs, z \in BadSizes(ServerMaxValidityDays)}

ClientForm(n, c, o, e, p, z, g) ==
    [name |-> n, common_name |-> c, organization |-> o, email |-> e,
     issuing_ca |-> p, validity_days |-> z.validity_days, key_size |-> z.key_size,
     generate_p12 |-> g]

ClientForms ==
    {ClientForm(n, c, o, e, p, z, g) :
        n \in LeafNames, c \in LeafCommonNames, o \in Organizations, e \in Emails,
        p \in PkInputs, g \in BundleInputs, z \in GoodSizes(ClientMaxValidityDays)}

ClientSizeForms ==
    {ClientForm(n, c, o, e, p, z, g) :
        n \in LeafNames, c \in LeafCommonNames, o \in Organizations, e \in Emails,
        p \in PkInputs, g \in BundleInputs, z \in BadSizes(ClientMaxValidityDays)}

\* every reason confirmed, and one request that is not confirmed
RevokeForms ==
    [reason : ReasonInputs, confirm : {TRUE}]
        \cup [reason : {"unspecified"}, confirm : {FALSE}]

----------------------------------------------------------------------------
(* certificates/views.py: what a handler computes before it touches the     *)
(* database (build), and its write (save).  fault names the call that       *)
(* raises for a reason outside the program: the crypto provider or the      *)
(* database connection.  A raised exception ends the request.               *)

\* What a request answers: the HTTP status (200 the form rendered again with
\* its errors, 302 a redirect, 404 from get_object_or_404, 500 an exception
\* that left the handler), the message posted with it (messages.success,
\* .error, .warning, or none) and whether a key pair was generated.
Resp(status, level, keygen) ==
    [status |-> status, level |-> level, keygen |-> keygen, errors |-> {}, context |-> None]

Refused(errors) == [Resp(200, "none", FALSE) EXCEPT !.errors = errors]

NotFound == Resp(404, "none", FALSE)

\* render(request, 'server/detail.html', {'cert': cert}): the page of a certificate
Detail(cert) == [Resp(200, "none", FALSE) EXCEPT !.context = Some(cert.id)]

Redirect(level, keygen) == Resp(302, level, keygen)

\* the answer of a creation handler whose form was valid
Answer(error, keygen) ==
    IF error = "none" THEN Redirect("success", keygen) ELSE Resp(500, "none", keygen)

Raised(error, keygen) == [error |-> error, keygen |-> keygen, obj |-> None]

Built(obj) == [error |-> "none", keygen |-> TRUE, obj |-> Some(obj)]

CanLoadCa(row) ==
    /\ CanLoadCertificate(row.certificate_pem)
    /\ CanLoadPrivateKey(row.private_key_pem)

\* views.py 120-154: the CA instance as it is handed to ca.save()
\* a ca_create that never loads the parent's private key
ca_create_build_no_parent_key(caT, form, fault, pk, t) ==
    LET parent_ca == form.parent_ca
        obj == [NewCertificateAuthority(pk, form) EXCEPT !.is_root = (parent_ca = NULL)]
        parent_cert == IF parent_ca # NULL
                       THEN Some(load_certificate_from_pem(caT[parent_ca].certificate_pem))
                       ELSE None
        parent_key == None
        gen == generate_ca_certificate(obj.common_name, obj.organization,
                   form.validity_days, form.key_size, parent_cert, parent_key, pk, t)
    IN  IF parent_ca # NULL /\ ~CanLoadCa(caT[parent_ca]) THEN Raised("load", FALSE)
        ELSE IF fault = "keygen" THEN Raised("keygen", FALSE)
        ELSE IF fault = "sign" THEN Raised("sign", TRUE)
        ELSE Built([obj EXCEPT
                 !.certificate_pem = serialize_certificate(gen.certificate),
                 !.private_key_pem = serialize_private_key(gen.private_key),
                 !.valid_from = gen.certificate.not_valid_before,
                 !.valid_until = gen.certificate.not_valid_after])

\* a ca_create that leaves is_root at the model's default
ca_create_build_default_root(caT, form, fault, pk, t) ==
    LET parent_ca == form.parent_ca
        obj == NewCertificateAuthority(pk, form)
        parent_cert == IF parent_ca # NULL
                       THEN Some(load_certificate_from_pem(caT[parent_ca].certificate_pem))
                       ELSE None
        parent_key == IF parent_ca # NULL
                      THEN Some(load_private_key_from_pem(caT[parent_ca].private_key_pem))
                      ELSE None
        gen == generate_ca_certificate(obj.common_name, obj.organization,
                   form.validity_days, form.key_size, parent_cert, parent_key, pk, t)
    IN  IF parent_ca # NULL /\ ~CanLoadCa(caT[parent_ca]) THEN Raised("load", FALSE)
        ELSE IF fault = "keygen" THEN Raised("keygen", FALSE)
        ELSE IF fault = "sign" THEN Raised("sign", TRUE)
        ELSE Built([obj EXCEPT
                 !.certificate_pem = serialize_certificate(gen.certificate),
                 !.private_key_pem = serialize_private_key(gen.private_key),
                 !.valid_from = gen.certificate.not_valid_before,
                 !.valid_until = gen.certificate.not_valid_after])

ca_create_build(caT, form, fault, pk, t) ==
    LET parent_ca == form.parent_ca
        obj == [NewCertificateAuthority(pk, form) EXCEPT !.is_root = (parent_ca = NULL)]
        parent_cert == IF parent_ca # NULL
                       THEN Some(load_certificate_from_pem(caT[parent_ca].certificate_pem))
                       ELSE None
        parent_key == IF parent_ca # NULL
                      THEN Some(load_private_key_from_pem(caT[parent_ca].private_key_pem))
                      ELSE None
        gen == generate_ca_certificate(obj.common_name, obj.organization,
                   form.validity_days, form.key_size, parent_cert, parent_key, pk, t)
    IN  IF parent_ca # NULL /\ ~CanLoadCa(caT[parent_ca]) THEN Raised("load", FALSE)
        ELSE IF fault = "keygen" THEN Raised("keygen", FALSE)
        ELSE IF fault = "sign" THEN Raised("sign", TRUE)
        ELSE Built([obj EXCEPT
                 !.certificate_pem = serialize_certificate(gen.certificate),
                 !.private_key_pem = serialize_private_key(gen.private_key),
                 !.valid_from = gen.certificate.not_valid_before,
                 !.valid_until = gen.certificate.not_valid_after])


\* the server certificate saved without its status being set
server_cert_fill_no_status(cert_obj, gen, ca_row) ==
    [cert_obj EXCEPT
        !.certificate_pem = serialize_certificate(gen.certificate),
        !.private_key_pem = serialize_private_key(gen.private_key),
        !.certificate_chain_pem = serialize_certificate(gen.certificate) \o ca_row.certificate_pem,
        !.valid_from = gen.certificate.not_valid_before,
        !.valid_until = gen.certificate.not_valid_after]

\* a fill whose chain holds the leaf certificate alone
server_cert_fill_leaf_chain(cert_obj, gen, ca_row) ==
    [cert_obj EXCEPT
        !.certificate_pem = serialize_certificate(gen.certificate),
        !.private_key_pem = serialize_private_key(gen.private_key),
        !.certificate_chain_pem = serialize_certificate(gen.certificate),
        !.valid_from = gen.certificate.not_valid_before,
        !.valid_until = gen.certificate.not_valid_after,
        !.status = "active"]

\* views.py 274-279: the fields set on the server certificate after generation
server_cert_fill(cert_obj, gen, ca_row) ==
    [cert_obj EXCEPT
        !.certificate_pem = serialize_certificate(gen.certificate),
        !.private_key_pem = serialize_private_key(gen.private_key),
        !.certificate_chain_pem = serialize_certificate(gen.certificate) \o ca_row.certificate_pem,
        !.valid_from = gen.certificate.not_valid_before,
        !.valid_until = gen.certificate.not_valid_after,
        !.status = "active"]

\* views.py 244-279: the server certificate as it is handed to cert_obj.save()
server_cert_create_build(caT, form, fault, pk, t) ==
    LET cert_obj == NewServerCertificate(pk, form)
        ca_row == caT[cert_obj.issuing_ca]
        ca_cert == load_certificate_from_pem(ca_row.certificate_pem)
        ca_key == load_private_key_from_pem(ca_row.private_key_pem)
        san_dns == get_san_dns_list(cert_obj)
        san_ips == get_san_ip_list(cert_obj)
        gen == generate_server_certificate(cert_obj.common_name, ca_cert, ca_key,
                   san_dns, san_ips, cert_obj.organization, form.validity_days,
                   cert_obj.key_size, pk, t)
    IN  IF ~CanLoadCa(ca_row) THEN Raised("load", FALSE)
        ELSE IF fault = "keygen" THEN Raised("keygen", FALSE)
        ELSE IF SanIpRaises(san_ips) THEN Raised("san", TRUE)
        ELSE IF fault = "sign" THEN Raised("sign", TRUE)
        ELSE Built(server_cert_fill(cert_obj, gen, ca_row))

\* views.py 391-395: the fields set on the client certificate after generation
client_cert_fill(cert_obj, gen) ==
    [cert_obj EXCEPT
        !.certificate_pem = serialize_certificate(gen.certificate),
        !.private_key_pem = serialize_private_key(gen.private_key),
        !.valid_from = gen.certificate.not_valid_before,
        !.valid_until = gen.certificate.not_valid_after,
        !.status = "active"]

\* a bundle protected by one password while another is stored
client_cert_bundle_second_password(cert_obj, gen, ca_cert) ==
    LET p12_password == generate_random_password(cert_obj.id)
        p12_data == create_p12_bundle(gen.certificate, gen.private_key, ca_cert,
                        p12_password, cert_obj.name)
    IN  [cert_obj EXCEPT !.p12_bundle = Some(p12_data),
                         !.p12_password = generate_random_password(NULL)]

\* views.py 398-408: the PKCS#12 bundle and its password
client_cert_bundle(cert_obj, gen, ca_cert) ==
    LET p12_password == generate_random_password(cert_obj.id)
        p12_data == create_p12_bundle(gen.certificate, gen.private_key, ca_cert,
                        p12_password, cert_obj.name)
    IN  [cert_obj EXCEPT !.p12_bundle = Some(p12_data), !.p12_password = p12_password]

\* views.py 365-408: the client certificate as it is handed to cert_obj.save()
client_cert_create_build(caT, form, fault, pk, t) ==
    LET cert_obj == NewClientCertificate(pk, form)
        ca_row == caT[cert_obj.issuing_ca]
        ca_cert == load_certificate_from_pem(ca_row.certificate_pem)
        ca_key == load_private_key_from_pem(ca_row.private_key_pem)
        gen == generate_client_certificate(cert_obj.common_name, ca_cert, ca_key,
                   cert_obj.email, cert_obj.organization, form.validity_days,
                   cert_obj.key_size, pk, t)
        filled == client_cert_fill(cert_obj, gen)
    IN  IF ~CanLoadCa(ca_row) THEN Raised("load", FALSE)
        ELSE IF fault = "keygen" THEN Raised("keygen", FALSE)
        ELSE IF fault = "sign" THEN Raised("sign", TRUE)
        ELSE IF ~form.generate_p12 THEN Built(filled)
        ELSE IF fault = "p12" THEN Raised("p12", TRUE)
        ELSE Built(client_cert_bundle(filled, gen, ca_cert))

Saved(table) == [error |-> "none", table |-> table]

NotSaved(error, table) == [error |-> error, table |-> table]

\* ca.save() of a new instance: one INSERT
ca_save(caT, obj, fault) ==
    IF fault = "save" THEN NotSaved("save", caT)
    ELSE IF ~CaInsertAllowed(caT, obj) THEN NotSaved("integrity", caT)
    ELSE Saved(Put(caT, obj))

\* cert_obj.save() of a new instance: one INSERT
leaf_save(caT, table, obj, fault) ==
    IF fault = "save" THEN NotSaved("save", table)
    ELSE IF ~LeafWriteAllowed(caT, obj) THEN NotSaved("integrity", table)
    ELSE Saved(Put(table, obj))

\* views.py 120-155: the CA table after a request whose form is valid
ca_create_outcome(caT, form, fault, pk, t) ==
    LET b == ca_create_build(caT, form, fault, pk, t)
    IN  IF b.error # "none" THEN [error |-> b.error, keygen |-> b.keygen, table |-> caT]
        ELSE LET s == ca_save(caT, b.obj[1], fault)
             IN  [error |-> s.error, keygen |-> b.keygen, table |-> s.table]

\* views.py 244-280: the server table after a request whose form is valid
server_cert_create_outcome(caT, serverT, form, fault, pk, t) ==
    LET b == server_cert_create_build(caT, form, fault, pk, t)
    IN  IF b.error # "none" THEN [error |-> b.error, keygen |-> b.keygen, table |-> serverT]
        ELSE LET s == leaf_save(caT, serverT, b.obj[1], fault)
             IN  [error |-> s.error, keygen |-> b.keygen, table |-> s.table]


\* cert_obj.save() moved before the PKCS#12 bundle is built
client_cert_create_save_first(caT, clientT, form, fault, pk, t) ==
    LET b == client_cert_create_build(caT, [form EXCEPT !.generate_p12 = FALSE], fault, pk, t)
        p == client_cert_create_build(caT, form, fault, pk, t)
    IN  IF b.error # "none" THEN [error |-> b.error, keygen |-> b.keygen, table |-> clientT]
        ELSE LET s == leaf_save(caT, clientT, b.obj[1], fault)
             IN  IF s.error # "none" THEN [error |-> s.error, keygen |-> b.keygen, table |-> s.table]
                 ELSE IF p.error # "none" THEN [error |-> p.error, keygen |-> p.keygen, table |-> s.table]
                 ELSE [error |-> "none", keygen |-> p.keygen, table |-> Put(clientT, p.obj[1])]

\* views.py 365-410: the client table after a request whose form is valid
client_cert_create_outcome(caT, clientT, form, fault, pk, t) ==
    LET b == client_cert_create_build(caT, form, fault, pk, t)
    IN  IF b.error # "none" THEN [error |-> b.error, keygen |-> b.keygen, table |-> clientT]
        ELSE LET s == leaf_save(caT, clientT, b.obj[1], fault)
             IN  [error |-> s.error, keygen |-> b.keygen, table |-> s.table]


\* the dependency check without the child CAs
HasLeafDependencies(server_count, client_count, child_count) ==
    server_count > 0 \/ client_count > 0

\* views.py 210: the dependency check of ca_delete
HasDependencies(server_count, client_count, child_count) ==
    server_count > 0 \/ client_count > 0 \/ child_count > 0



\* revoke that also wipes the private key of the certificate
revoke_and_wipe(cert, form, t) ==
    [cert EXCEPT !.status = "revoked",
                 !.revoked_at = t,
                 !.revocation_reason = form.reason,
                 !.private_key_pem = << >>]

\* revoke as a toggle: a second revoke puts the certificate back in use
revoke_toggle(cert, form, t) ==
    [cert EXCEPT !.status = IF cert.status = "revoked" THEN "active" ELSE "revoked",
                 !.revoked_at = t,
                 !.revocation_reason = form.reason]

\* views.py 326-328: the fields revoke sets before cert.save()
revoke_fields(cert, form, t) ==
    [cert EXCEPT !.status = "revoked",
                 !.revoked_at = t,
                 !.revocation_reason = form.reason]

----------------------------------------------------------------------------
(* Requests handled one at a time: each action is one whole handler *)

Idle == [pc |-> "idle", view |-> "", pk |-> NULL, keygen |-> FALSE, obj |-> None]

Init ==
    /\ ca = << >>
    /\ server = << >>
    /\ client = << >>
    /\ now = TicksPerDay + 1
    /\ next_pk = 0
    /\ response = Redirect("none", FALSE)
    /\ req = [w \in Workers |-> Idle]

ca_create(form, fault) ==
    /\ IF ~CertificateAuthorityFormValid(ca, form)
       THEN /\ response' = Refused(CertificateAuthorityFormErrors(ca, form))
            /\ UNCHANGED <<ca, next_pk>>
       ELSE /\ next_pk < MaxPk
            /\ LET out == ca_create_outcome(ca, form, fault, next_pk + 1, now)
               IN  /\ next_pk' = IF out.error = "none" THEN next_pk + 1 ELSE next_pk
                   /\ ca' = out.table
                   /\ response' = Answer(out.error, out.keygen)
    /\ UNCHANGED <<server, client, now, req>>

ca_delete(pk) ==
    /\ IF pk \notin DOMAIN ca
       THEN /\ response' = NotFound
            /\ UNCHANGED <<ca, server, client>>
       ELSE LET server_count == Cardinality(server_certificates(server, pk))
                client_count == Cardinality(client_certificates(client, pk))
                child_count == Cardinality(child_cas(ca, pk))
                gone == Collect(ca, {pk})
            IN  IF HasDependencies(server_count, client_count, child_count)
                THEN /\ response' = Redirect("error", FALSE)
                     /\ UNCHANGED <<ca, server, client>>
                ELSE /\ ca' = Without(ca, gone)
                     /\ server' = Without(server, {s \in DOMAIN server : server[s].issuing_ca \in gone})
                     /\ client' = Without(client, {c \in DOMAIN client : client[c].issuing_ca \in gone})
                     /\ response' = Redirect("success", FALSE)
    /\ UNCHANGED <<now, next_pk, req>>

server_cert_create(form, fault) ==
    /\ IF DOMAIN ca = {}
       THEN /\ response' = Redirect("warning", FALSE)
            /\ UNCHANGED <<server, next_pk>>
       ELSE IF ~ServerCertificateFormValid(ca, form)
       THEN /\ response' = Refused(ServerCertificateFormErrors(ca, form))
            /\ UNCHANGED <<server, next_pk>>
       ELSE /\ next_pk < MaxPk
            /\ LET out == server_cert_create_outcome(ca, server, form, fault, next_pk + 1, now)
               IN  /\ next_pk' = IF out.error = "none" THEN next_pk + 1 ELSE next_pk
                   /\ server' = out.table
                   /\ response' = Answer(out.error, out.keygen)
    /\ UNCHANGED <<ca, client, now, req>>

client_cert_create(form, fault) ==
    /\ IF DOMAIN ca = {}
       THEN /\ response' = Redirect("warning", FALSE)
            /\ UNCHANGED <<client, next_pk>>
       ELSE IF ~ClientCertificateFormValid(ca, form)
       THEN /\ response' = Refused(ClientCertificateFormErrors(ca, form))
            /\ UNCHANGED <<client, next_pk>>
       ELSE /\ next_pk < MaxPk
            /\ LET out == client_cert_create_outcome(ca, client, form, fault, next_pk + 1, now)
               IN  /\ next_pk' = IF out.error = "none" THEN next_pk + 1 ELSE next_pk
                   /\ client' = out.table
                   /\ response' = Answer(out.error, out.keygen)
    /\ UNCHANGED <<ca, server, now, req>>

server_cert_revoke(pk, form) ==
    /\ IF pk \notin DOMAIN server
       THEN /\ response' = NotFound
            /\ UNCHANGED server
       ELSE IF RevokeCertificateFormValid(form)
       THEN /\ server' = Put(server, revoke_fields(server[pk], form, now))
            /\ response' = Redirect("success", FALSE)
       ELSE /\ response' = Redirect("none", FALSE)
            /\ UNCHANGED server
    /\ UNCHANGED <<ca, client, now, next_pk, req>>

server_cert_delete(pk) ==
    /\ IF pk \notin DOMAIN server
       THEN /\ response' = NotFound
            /\ UNCHANGED server
       ELSE /\ server' = Without(server, {pk})
            /\ response' = Redirect("success", FALSE)
    /\ UNCHANGED <<ca, client, now, next_pk, req>>

client_cert_revoke(pk, form) ==
    /\ IF pk \notin DOMAIN client
       THEN /\ response' = NotFound
            /\ UNCHANGED client
       ELSE IF RevokeCertificateFormValid(form)
       THEN /\ client' = Put(client, revoke_fields(client[pk], form, now))
            /\ response' = Redirect("success", FALSE)
       ELSE /\ response' = Redirect("none", FALSE)
            /\ UNCHANGED client
    /\ UNCHANGED <<ca, server, now, next_pk, req>>


\* a delete that is refused while the certificate is in use
client_cert_delete_unless_active(pk) ==
    /\ IF pk \notin DOMAIN client
       THEN /\ response' = NotFound
            /\ UNCHANGED client
       ELSE IF client[pk].status = "active"
       THEN /\ response' = Redirect("error", FALSE)
            /\ UNCHANGED client
       ELSE /\ client' = Without(client, {pk})
            /\ response' = Redirect("success", FALSE)
    /\ UNCHANGED <<ca, server, now, next_pk, req>>

client_cert_delete(pk) ==
    /\ IF pk \notin DOMAIN client
       THEN /\ response' = NotFound
            /\ UNCHANGED client
       ELSE /\ client' = Without(client, {pk})
            /\ response' = Redirect("success", FALSE)
    /\ UNCHANGED <<ca, server, now, next_pk, req>>

server_cert_detail(pk) ==
    /\ response' = IF pk \in DOMAIN server THEN Detail(server[pk]) ELSE NotFound
    /\ UNCHANGED <<ca, server, client, now, next_pk, req>>

client_cert_detail(pk) ==
    /\ response' = IF pk \in DOMAIN client THEN Detail(client[pk]) ELSE NotFound
    /\ UNCHANGED <<ca, server, client, now, next_pk, req>>

\* a request that is refused before any call can raise is tried once
FaultsOf(valid, faults) == IF valid THEN faults ELSE {"none"}

\* a request for a record that is not there is answered before its form is
\* read: it is tried with one form
FormsOf(found, forms) == IF found THEN forms ELSE {CHOOSE f \in forms : TRUE}

Next ==
    \/ \E form \in CaForms :
        \E fault \in FaultsOf(CertificateAuthorityFormValid(ca, form), Faults) :
            ca_create(form, fault)
    \/ \E pk \in PkInputs : ca_delete(pk)
    \/ \E form \in ServerForms :
        \E fault \in FaultsOf(ServerCertificateFormValid(ca, form), Faults) :
            server_cert_create(form, fault)
    \/ \E form \in ClientForms :
        \E fault \in FaultsOf(ClientCertificateFormValid(ca, form), ClientFaults) :
            client_cert_create(form, fault)
    \/ \E pk \in PkInputs :
        \E form \in FormsOf(pk \in DOMAIN server, RevokeForms) : server_cert_revoke(pk, form)
    \/ \E pk \in PkInputs : server_cert_delete(pk)
    \/ \E pk \in PkInputs :
        \E form \in FormsOf(pk \in DOMAIN client, RevokeForms) : client_cert_revoke(pk, form)
    \/ \E pk \in PkInputs : client_cert_delete(pk)

Spec == Init /\ [][Next]_vars

----------------------------------------------------------------------------
(* Issuance requests of every size, accepted and refused, handled one at a  *)
(* time                                                                     *)

KeygenFaults == {"none", "keygen"}

NextForms ==
    \/ \E form \in CaForms \cup CaSizeForms :
        \E fault \in FaultsOf(CertificateAuthorityFormValid(ca, form), KeygenFaults) :
            ca_create(form, fault)
    \/ \E form \in ServerForms \cup ServerSizeForms :
        \E fault \in FaultsOf(ServerCertificateFormValid(ca, form), KeygenFaults) :
            server_cert_create(form, fault)
    \/ \E form \in ClientForms \cup ClientSizeForms :
        \E fault \in FaultsOf(ClientCertificateFormValid(ca, form), KeygenFaults) :
            client_cert_create(form, fault)
    \/ \E pk \in PkInputs : ca_delete(pk)

SpecForms == Init /\ [][NextForms]_vars

----------------------------------------------------------------------------
(* Requests handled by several workers at once.  A handler runs outside any *)
(* transaction, so each of its database accesses is a step of its own: what *)
(* it reads (begin) and what it writes (finish).                            *)

InFlight(pc, view, pk, keygen, obj) ==
    [pc |-> pc, view |-> view, pk |-> pk, keygen |-> keygen, obj |-> obj]

ConcCaForms ==
    {f \in CaForms : f.name \in {"R", "I"} /\ f.validity_days = MinValidityDays /\ f.key_size = 2048}

ConcServerForms ==
    {f \in ServerForms : f.validity_days = MinValidityDays /\ f.key_size = 2048
                            /\ ~SanIpRaises(get_san_ip_list(f))}

ConcClientForms ==
    {f \in ClientForms : f.validity_days = MinValidityDays /\ f.key_size = 2048}

ConcRevokeForms == {f \in RevokeForms : f.reason = "unspecified" /\ f.confirm}

\* a request goes to a worker that is free; which one makes no difference
FreeWorkers ==
    IF \E w \in Workers : req[w].pc = "idle"
    THEN {CHOOSE w \in Workers : req[w].pc = "idle"}
    ELSE {}

SaveFaults == {"none", "save"}

\* views.py 118-154, up to ca.save()
ca_create_begin(w, form) ==
    /\ req[w].pc = "idle"
    /\ IF ~CertificateAuthorityFormValid(ca, form)
       THEN /\ response' = Refused(CertificateAuthorityFormErrors(ca, form))
            /\ UNCHANGED <<next_pk, req>>
       ELSE /\ next_pk < MaxPk
            /\ next_pk' = next_pk + 1
            /\ LET b == ca_create_build(ca, form, "none", next_pk + 1, now)
               IN  IF b.error = "none"
                   THEN /\ req' = [req EXCEPT ![w] = InFlight("save", "ca_create", next_pk + 1, b.keygen, b.obj)]
                        /\ UNCHANGED response
                   ELSE /\ response' = Answer(b.error, b.keygen)
                        /\ UNCHANGED req
    /\ UNCHANGED <<ca, server, client, now>>

\* views.py 155-158
ca_create_finish(w, fault) ==
    /\ req[w].pc = "save"
    /\ req[w].view = "ca_create"
    /\ LET s == ca_save(ca, req[w].obj[1], fault)
       IN  /\ ca' = s.table
           /\ response' = Answer(s.error, req[w].keygen)
    /\ req' = [req EXCEPT ![w] = Idle]
    /\ UNCHANGED <<server, client, now, next_pk>>

\* views.py 237-279, up to cert_obj.save()
server_cert_create_begin(w, form) ==
    /\ req[w].pc = "idle"
    /\ IF DOMAIN ca = {}
       THEN /\ response' = Redirect("warning", FALSE)
            /\ UNCHANGED <<next_pk, req>>
       ELSE IF ~ServerCertificateFormValid(ca, form)
       THEN /\ response' = Refused(ServerCertificateFormErrors(ca, form))
            /\ UNCHANGED <<next_pk, req>>
       ELSE /\ next_pk < MaxPk
            /\ next_pk' = next_pk + 1
            /\ LET b == server_cert_create_build(ca, form, "none", next_pk + 1, now)
               IN  IF b.error = "none"
                   THEN /\ req' = [req EXCEPT ![w] = InFlight("save", "server_cert_create", next_pk + 1, b.keygen, b.obj)]
                        /\ UNCHANGED response
                   ELSE /\ response' = Answer(b.error, b.keygen)
                        /\ UNCHANGED req
    /\ UNCHANGED <<ca, server, client, now>>

\* views.py 280-283
server_cert_create_finish(w, fault) ==
    /\ req[w].pc = "save"
    /\ req[w].view = "server_cert_create"
    /\ LET s == leaf_save(ca, server, req[w].obj[1], fault)
       IN  /\ server' = s.table
           /\ response' = Answer(s.error, req[w].keygen)
    /\ req' = [req EXCEPT ![w] = Idle]
    /\ UNCHANGED <<ca, client, now, next_pk>>

\* views.py 358-408, up to cert_obj.save()
client_cert_create_begin(w, form) ==
    /\ req[w].pc = "idle"
    /\ IF DOMAIN ca = {}
       THEN /\ response' = Redirect("warning", FALSE)
            /\ UNCHANGED <<next_pk, req>>
       ELSE IF ~ClientCertificateFormValid(ca, form)
       THEN /\ response' = Refused(ClientCertificateFormErrors(ca, form))
            /\ UNCHANGED <<next_pk, req>>
       ELSE /\ next_pk < MaxPk
            /\ next_pk' = next_pk + 1
            /\ LET b == client_cert_create_build(ca, form, "none", next_pk + 1, now)
               IN  IF b.error = "none"
                   THEN /\ req' = [req EXCEPT ![w] = InFlight("save", "client_cert_create", next_pk + 1, b.keygen, b.obj)]
                        /\ UNCHANGED response
                   ELSE /\ response' = Answer(b.error, b.keygen)
                        /\ UNCHANGED req
    /\ UNCHANGED <<ca, server, client, now>>

\* views.py 410-413
client_cert_create_finish(w, fault) ==
    /\ req[w].pc = "save"
    /\ req[w].view = "client_cert_create"
    /\ LET s == leaf_save(ca, client, req[w].obj[1], fault)
       IN  /\ client' = s.table
           /\ response' = Answer(s.error, req[w].keygen)
    /\ req' = [req EXCEPT ![w] = Idle]
    /\ UNCHANGED <<ca, server, now, next_pk>>

\* views.py 203-217: the row is fetched and its dependents are counted
ca_delete_begin(w, pk) ==
    /\ req[w].pc = "idle"
    /\ IF pk \notin DOMAIN ca
       THEN /\ response' = NotFound
            /\ UNCHANGED req
       ELSE LET server_count == Cardinality(server_certificates(server, pk))
                client_count == Cardinality(client_certificates(client, pk))
                child_count == Cardinality(child_cas(ca, pk))
            IN  IF HasDependencies(server_count, client_count, child_count)
                THEN /\ response' = Redirect("error", FALSE)
                     /\ UNCHANGED req
                ELSE /\ req' = [req EXCEPT ![w] = InFlight("delete", "ca_delete", pk, FALSE, None)]
                     /\ UNCHANGED response
    /\ UNCHANGED <<ca, server, client, now, next_pk>>

\* views.py 219-222: ca.delete() removes the row and what cascades from it
ca_delete_finish(w) ==
    /\ req[w].pc = "delete"
    /\ req[w].view = "ca_delete"
    /\ LET gone == Collect(ca, {req[w].pk})
       IN  /\ ca' = Without(ca, gone)
           /\ server' = Without(server, {s \in DOMAIN server : server[s].issuing_ca \in gone})
           /\ client' = Without(client, {c \in DOMAIN client : client[c].issuing_ca \in gone})
    /\ response' = Redirect("success", FALSE)
    /\ req' = [req EXCEPT ![w] = Idle]
    /\ UNCHANGED <<now, next_pk>>

NextConc ==
    \/ \E w \in FreeWorkers, form \in ConcCaForms : ca_create_begin(w, form)
    \/ \E w \in Workers, fault \in SaveFaults : ca_create_finish(w, fault)
    \/ \E w \in FreeWorkers, form \in ConcServerForms : server_cert_create_begin(w, form)
    \/ \E w \in Workers, fault \in SaveFaults : server_cert_create_finish(w, fault)
    \/ \E w \in FreeWorkers, form \in ConcClientForms : client_cert_create_begin(w, form)
    \/ \E w \in Workers, fault \in SaveFaults : client_cert_create_finish(w, fault)
    \/ \E w \in FreeWorkers, pk \in PkInputs : ca_delete_begin(w, pk)
    \/ \E w \in Workers : ca_delete_finish(w)
    \/ \E pk \in PkInputs, form \in ConcRevokeForms : server_cert_revoke(pk, form)
    \/ \E pk \in PkInputs : server_cert_delete(pk)
    \/ \E pk \in PkInputs, form \in ConcRevokeForms : client_cert_revoke(pk, form)
    \/ \E pk \in PkInputs : client_cert_delete(pk)

SpecConc == Init /\ [][NextConc]_vars

----------------------------------------------------------------------------
(* Requests handled one at a time while the clock advances.  The CAs are    *)
(* created before the clock moves, and one server and one client            *)
(* certificate are followed from issuance through revocation and expiry.    *)

\* a clock that comes with a job marking elapsed certificates as expired
TickExpiring ==
    /\ now < MaxNow
    /\ now' = now + 1
    /\ server' = [k \in DOMAIN server |->
           IF server[k].status = "active" /\ server[k].valid_until < now + 1
           THEN [server[k] EXCEPT !.status = "expired"] ELSE server[k]]
    /\ client' = [k \in DOMAIN client |->
           IF client[k].status = "active" /\ client[k].valid_until < now + 1
           THEN [client[k] EXCEPT !.status = "expired"] ELSE client[k]]
    /\ UNCHANGED <<ca, next_pk, response, req>>

\* timezone.now() read at a later time
Tick ==
    /\ now < MaxNow
    /\ now' = now + 1
    /\ UNCHANGED <<ca, server, client, next_pk, response, req>>

NextClock ==
    \/ Tick
    \/ \E form \in ConcCaForms : now = TicksPerDay + 1 /\ ca_create(form, "none")
    \/ \E form \in ConcServerForms : server = << >> /\ server_cert_create(form, "none")
    \/ \E form \in ConcClientForms : client = << >> /\ client_cert_create(form, "none")
    \/ \E pk \in PkInputs, form \in ConcRevokeForms : server_cert_revoke(pk, form)
    \/ \E pk \in PkInputs, form \in ConcRevokeForms : client_cert_revoke(pk, form)
    \/ \E pk \in PkInputs : server_cert_detail(pk)
    \/ \E pk \in PkInputs : client_cert_detail(pk)

SpecClock == Init /\ [][NextClock]_vars

----------------------------------------------------------------------------
(* Server certificates under every SAN text: one root, one server          *)
(* certificate at a time                                                    *)

SanCommonNames == {"www.example.com", "api.example.com"}

SanDnsPieces ==
    {Piece(0, "www.example.com"), Piece(1, "api.example.com"), Piece(0, "")}

SanIpPieces == {Piece(0, "10.0.0.1"), Piece(1, "::1"), Piece(0, "bad"), Piece(1, "")}

\* the texts of at most two pieces
Texts(pieces) == {<< >>} \cup {<<x>> : x \in pieces} \cup {<<x, y>> : x \in pieces, y \in pieces}

SanDnsTexts ==
    Texts(SanDnsPieces)
        \cup {<<Piece(0, "www.example.com"), Piece(1, "mail.example.com"),
                Piece(1, ""), Piece(1, "www.example.com")>>}

SanIpTexts ==
    Texts(SanIpPieces)
        \cup {<<Piece(0, "10.0.0.1"), Piece(1, "bad"), Piece(1, "::1")>>,
              <<Piece(0, "10.0.0.1"), Piece(1, "::1"), Piece(1, "bad")>>}

SanServerForms(p) ==
    {ServerForm(n, c, o, d, a, p, z) :
        n \in LeafNames, c \in SanCommonNames, o \in Organizations,
        d \in SanDnsTexts, a \in SanIpTexts, z \in GoodSizes(ServerMaxValidityDays)}

NextSan ==
    \/ \E form \in CaForms :
          ca = << >> /\ form.name = "R" /\ form.parent_ca = NULL /\ ca_create(form, "none")
    \/ \E p \in DOMAIN ca : \E form \in SanServerForms(p) :
          server = << >> /\ server_cert_create(form, "none")
    \/ \E pk \in DOMAIN server : server_cert_delete(pk)

SpecSan == Init /\ [][NextSan]_vars

----------------------------------------------------------------------------
(* Client certificates with and without a PKCS#12 bundle                    *)

BundleClientForms ==
    {ClientForm(n, c, o, e, p, z, g) :
        n \in LeafNames, c \in LeafCommonNames, o \in Organizations, e \in Emails,
        p \in PkInputs, g \in BOOLEAN, z \in GoodSizes(ClientMaxValidityDays)}

NextBundle ==
    \/ \E form \in ConcCaForms : ca_create(form, "none")
    \/ \E form \in BundleClientForms, fault \in {"none", "p12"} : client_cert_create(form, fault)
    \/ \E pk \in PkInputs, form \in ConcRevokeForms : client_cert_revoke(pk, form)
    \/ \E pk \in PkInputs : client_cert_delete(pk)

SpecBundle == Init /\ [][NextBundle]_vars

----------------------------------------------------------------------------
(* Issuance at every instant for one and two days: one root, one server     *)
(* certificate and one client certificate                                   *)

WindowSizes ==
    {[validity_days |-> d, key_size |-> 2048] : d \in {MinValidityDays, MinValidityDays + 1}}

WindowCaForms ==
    {CaForm(i, o, NULL, z) : i \in {j \in CaIdentities : j.name = "R"},
                             o \in Organizations, z \in WindowSizes}

WindowServerForms ==
    {ServerForm(n, c, o, << >>, << >>, p, z) :
        n \in LeafNames, c \in LeafCommonNames, o \in Organizations,
        p \in PkInputs, z \in WindowSizes}

WindowClientForms ==
    {ClientForm(n, c, o, e, p, z, FALSE) :
        n \in LeafNames, c \in LeafCommonNames, o \in Organizations, e \in Emails,
        p \in PkInputs, z \in WindowSizes}

NextWindow ==
    \/ Tick
    \/ \E form \in WindowCaForms : ca = << >> /\ ca_create(form, "none")
    \/ \E form \in WindowServerForms : server = << >> /\ server_cert_create(form, "none")
    \/ \E form \in WindowClientForms : client = << >> /\ client_cert_create(form, "none")

SpecWindow == Init /\ [][NextWindow]_vars

----------------------------------------------------------------------------
(* Revocation split at its database accesses, beside deletion               *)

\* Model.save() of an instance loaded from the table: an UPDATE of the row
\* with its primary key and, when that matches no row, an INSERT
save_loaded(caT, table, obj) ==
    IF obj.id \in DOMAIN table THEN Saved(Put(table, obj))
    ELSE leaf_save(caT, table, obj, "none")

\* views.py 321-328: the row is fetched, the form read, the fields set
server_cert_revoke_begin(w, pk, form) ==
    /\ req[w].pc = "idle"
    /\ IF pk \notin DOMAIN server
       THEN /\ response' = NotFound
            /\ UNCHANGED req
       ELSE IF RevokeCertificateFormValid(form)
       THEN /\ req' = [req EXCEPT ![w] = InFlight("save", "server_cert_revoke", pk, FALSE,
                                                 Some(revoke_fields(server[pk], form, now)))]
            /\ UNCHANGED response
       ELSE /\ response' = Redirect("none", FALSE)
            /\ UNCHANGED req
    /\ UNCHANGED <<ca, server, client, now, next_pk>>

\* views.py 329-332: cert.save()
server_cert_revoke_finish(w) ==
    /\ req[w].pc = "save"
    /\ req[w].view = "server_cert_revoke"
    /\ LET s == save_loaded(ca, server, req[w].obj[1])
       IN  /\ server' = s.table
           /\ response' = Answer(s.error, FALSE)
    /\ req' = [req EXCEPT ![w] = Idle]
    /\ UNCHANGED <<ca, client, now, next_pk>>

\* views.py 454-461
client_cert_revoke_begin(w, pk, form) ==
    /\ req[w].pc = "idle"
    /\ IF pk \notin DOMAIN client
       THEN /\ response' = NotFound
            /\ UNCHANGED req
       ELSE IF RevokeCertificateFormValid(form)
       THEN /\ req' = [req EXCEPT ![w] = InFlight("save", "client_cert_revoke", pk, FALSE,
                                                 Some(revoke_fields(client[pk], form, now)))]
            /\ UNCHANGED response
       ELSE /\ response' = Redirect("none", FALSE)
            /\ UNCHANGED req
    /\ UNCHANGED <<ca, server, client, now, next_pk>>

\* views.py 462-465: cert.save()
client_cert_revoke_finish(w) ==
    /\ req[w].pc = "save"
    /\ req[w].view = "client_cert_revoke"
    /\ LET s == save_loaded(ca, client, req[w].obj[1])
       IN  /\ client' = s.table
           /\ response' = Answer(s.error, FALSE)
    /\ req' = [req EXCEPT ![w] = Idle]
    /\ UNCHANGED <<ca, server, now, next_pk>>

NextRace ==
    \/ \E form \in ConcCaForms : ca = << >> /\ ca_create(form, "none")
    \/ \E form \in ConcServerForms : server_cert_create(form, "none")
    \/ \E form \in ConcClientForms : client_cert_create(form, "none")
    \/ \E w \in FreeWorkers, pk \in PkInputs, form \in ConcRevokeForms :
          server_cert_revoke_begin(w, pk, form)
    \/ \E w \in Workers : server_cert_revoke_finish(w)
    \/ \E w \in FreeWorkers, pk \in PkInputs, form \in ConcRevokeForms :
          client_cert_revoke_begin(w, pk, form)
    \/ \E w \in Workers : client_cert_revoke_finish(w)
    \/ \E pk \in PkInputs : server_cert_delete(pk)
    \/ \E pk \in PkInputs : client_cert_delete(pk)

SpecRace == Init /\ [][NextRace]_vars

----------------------------------------------------------------------------
(* generate_ca_certificate called with every combination of parent_cert     *)
(* and parent_key                                                           *)

\* what a call of generate_ca_certificate was given and what it returned
Returned(parent_cert, parent_key, gen) ==
    [Resp(200, "returned", TRUE) EXCEPT
        !.context = Some([parent_cert |-> parent_cert, parent_key |-> parent_key,
                          certificate |-> gen.certificate, private_key |-> gen.private_key])]

ParentCerts == {None} \cup {Some(load_certificate_from_pem(ca[k].certificate_pem)) : k \in DOMAIN ca}

ParentKeys == {None} \cup {Some(load_private_key_from_pem(ca[k].private_key_pem)) : k \in DOMAIN ca}

generate_ca_certificate_call(i, parent_cert, parent_key) ==
    /\ response' = Returned(parent_cert, parent_key,
                        generate_ca_certificate(i.common_name, "", MinValidityDays, 2048,
                                                parent_cert, parent_key, NULL, now))
    /\ UNCHANGED <<ca, server, client, now, next_pk, req>>

NextGenerate ==
    \/ \E form \in CaForms : ca_create(form, "none")
    \/ \E i \in CaIdentities, parent_cert \in ParentCerts, parent_key \in ParentKeys :
          generate_ca_certificate_call(i, parent_cert, parent_key)

SpecGenerate == Init /\ [][NextGenerate]_vars

----------------------------------------------------------------------------
(* Properties *)

Leaves == {"server", "client"}

Table(kind) == IF kind = "server" THEN server ELSE client

TableNext(kind) == IF kind = "server" THEN server' ELSE client'

Revoke(kind, pk, form) ==
    IF kind = "server" THEN server_cert_revoke(pk, form) ELSE client_cert_revoke(pk, form)

\* C1: a revoke request on a certificate whose status is not active fails and
\* performs no status transition: the record is left as it was and no
\* success is reported.
C1_RevokeOnlyWhenActive ==
    [][\A kind \in Leaves, pk \in PkInputs, form \in RevokeForms :
          (/\ pk \in DOMAIN Table(kind)
           /\ Table(kind)[pk].status # "active"
           /\ Revoke(kind, pk, form))
          => (TableNext(kind) = Table(kind) /\ response'.level # "success")]_vars

\* C2: once a certificate is revoked, no later request changes its revoked_at
\* or its revocation_reason.
C2_FirstRevocationKept ==
    [][\A kind \in Leaves :
          \A pk \in DOMAIN Table(kind) \cap DOMAIN TableNext(kind) :
              Table(kind)[pk].status = "revoked"
              => /\ TableNext(kind)[pk].revoked_at = Table(kind)[pk].revoked_at
                 /\ TableNext(kind)[pk].revocation_reason = Table(kind)[pk].revocation_reason]_vars

Dependents(pk) ==
    \/ \E s \in DOMAIN server : server[s].issuing_ca = pk
    \/ \E c \in DOMAIN client : client[c].issuing_ca = pk
    \/ \E k \in DOMAIN ca : ca[k].parent_ca = pk

\* C3: delete of a CA succeeds if and only if no server certificate, client
\* certificate or child CA references it.  Refused, it reports the error and
\* leaves every record as it was; done, the CA record alone disappears.
C3_CaDeleteIffNoDependents ==
    [][\A pk \in PkInputs :
          (pk \in DOMAIN ca /\ ca_delete(pk))
          => IF Dependents(pk)
             THEN /\ UNCHANGED <<ca, server, client>>
                  /\ response'.level = "error"
             ELSE /\ ca' = [k \in DOMAIN ca \ {pk} |-> ca[k]]
                  /\ UNCHANGED <<server, client>>
                  /\ response'.level = "success"]_vars

\* a delete was refused for a CA that has a child CA, and one for a CA that
\* has issued a certificate
C3_Witness ==
    /\ response.level = "error"
    /\ \E pk \in DOMAIN ca : \E k \in DOMAIN ca : ca[k].parent_ca = pk
    /\ \E pk \in DOMAIN ca : \E s \in DOMAIN server : server[s].issuing_ca = pk

\* C4: in every state every server and client certificate references an
\* issuing CA that is in the store, and every CA with a parent has its
\* parent in the store.
C4_ReferencesPresent ==
    /\ \A s \in DOMAIN server : server[s].issuing_ca \in DOMAIN ca
    /\ \A c \in DOMAIN client : client[c].issuing_ca \in DOMAIN ca
    /\ \A k \in DOMAIN ca : ca[k].parent_ca # NULL => ca[k].parent_ca \in DOMAIN ca

\* a certificate is about to be saved while its issuing CA has been deleted
\* and another CA is in the store
C4_Witness ==
    /\ \E w \in Workers :
          /\ req[w].pc = "save"
          /\ req[w].view \in {"server_cert_create", "client_cert_create"}
          /\ req[w].obj[1].issuing_ca \notin DOMAIN ca
    /\ DOMAIN ca # {}

\* C5: CA delete and an issuance against the same CA exclude each other: no
\* record is persisted whose issuing or parent CA is gone, and no delete
\* removes a CA that has had a dependent persisted since its check.
C5_DeleteExcludesIssuance ==
    [][/\ \A s \in DOMAIN server' \ DOMAIN server : server'[s].issuing_ca \in DOMAIN ca
       /\ \A c \in DOMAIN client' \ DOMAIN client : client'[c].issuing_ca \in DOMAIN ca
       /\ \A k \in DOMAIN ca' \ DOMAIN ca :
              ca'[k].parent_ca # NULL => ca'[k].parent_ca \in DOMAIN ca
       /\ \A w \in Workers :
              (req[w].pc = "delete" /\ req'[w].pc = "idle" /\ req[w].pk \notin DOMAIN ca')
              => ~Dependents(req[w].pk)]_vars

\* C6: every CA that has a parent has a root parent whose certificate
\* carries pathLength 1, so the hierarchy is at most two deep.
C6_IntermediateSignsNoCa ==
    \A k \in DOMAIN ca :
        ca[k].parent_ca # NULL
        => /\ ca[k].parent_ca \in DOMAIN ca
           /\ ca[ca[k].parent_ca].parent_ca = NULL
           /\ load_certificate_from_pem(ca[ca[k].parent_ca].certificate_pem).path_length
                  = Some(RootPathLength)

Complete(row) ==
    /\ CanLoadCertificate(row.certificate_pem)
    /\ CanLoadPrivateKey(row.private_key_pem)
    /\ row.valid_from # NULL
    /\ row.valid_until # NULL

\* C7: an issuance that fails (the form is shown again, or an exception
\* leaves the handler) leaves every table as it was, and every record in the
\* store is complete.
C7_FailedIssuanceLeavesStore ==
    [][/\ response'.status \in {200, 500} => UNCHANGED <<ca, server, client>>
       /\ \A k \in DOMAIN ca' : Complete(ca'[k])
       /\ \A s \in DOMAIN server' : Complete(server'[s])
       /\ \A c \in DOMAIN client' : Complete(client'[c])]_vars

\* an issuance failed after its key pair was generated, with a CA and a
\* server certificate in the store
C7_Witness ==
    /\ response.status = 500
    /\ response.keygen
    /\ DOMAIN ca # {}
    /\ DOMAIN server # {}

OutOfRange(form, max_days) ==
    \/ form.validity_days \notin 1..max_days
    \/ form.key_size \notin {2048, 4096}

RefusedBeforeKeygen ==
    /\ UNCHANGED <<ca, server, client>>
    /\ response'.level # "success"
    /\ ~response'.keygen

\* C8: a request whose validity_days is outside 1..825 (server), 1..1095
\* (client) or 1..7300 (CA), or whose key_size is neither 2048 nor 4096, is
\* refused before any key pair is generated and creates no record: a step
\* that generates a key pair, changes a table or reports success is the
\* step of no such request.
C8_OutOfRangeRefused ==
    [][~RefusedBeforeKeygen =>
          /\ \A form \in CaForms \cup CaSizeForms, fault \in KeygenFaults :
                 OutOfRange(form, 7300) => ~ca_create(form, fault)
          /\ \A form \in ServerForms \cup ServerSizeForms, fault \in KeygenFaults :
                 OutOfRange(form, 825) => ~server_cert_create(form, fault)
          /\ \A form \in ClientForms \cup ClientSizeForms, fault \in KeygenFaults :
                 OutOfRange(form, 1095) => ~client_cert_create(form, fault)]_vars

\* a request was refused for its validity_days, or for its key_size, with a
\* CA in the store
C8_Witness ==
    /\ response.status = 200
    /\ response.errors \in {{"validity_days"}, {"key_size"}}
    /\ ~response.keygen
    /\ DOMAIN ca # {}

\* C9: a certificate whose status is revoked has status revoked in the next
\* state, as long as its record exists.
C9_RevokedIsTerminal ==
    [][\A kind \in Leaves :
          \A pk \in DOMAIN Table(kind) \cap DOMAIN TableNext(kind) :
              Table(kind)[pk].status = "revoked" => TableNext(kind)[pk].status = "revoked"]_vars

\* a server and a client certificate are revoked, and the last request was
\* a revoke or a delete that went through
C9_Witness ==
    /\ \E s \in DOMAIN server : server[s].status = "revoked"
    /\ \E c \in DOMAIN client : client[c].status = "revoked"
    /\ response.level = "success"
    /\ ~response.keygen

\* C10: a certificate record enters the store with status active, and no
\* record in the store has status pending.
C10_IssuedActive ==
    [][\A kind \in Leaves :
          /\ \A pk \in DOMAIN TableNext(kind) \ DOMAIN Table(kind) :
                 TableNext(kind)[pk].status = "active"
          /\ \A pk \in DOMAIN TableNext(kind) : TableNext(kind)[pk].status # "pending"]_vars

\* a certificate has just been issued, and the store holds a server and a
\* client certificate
C10_Witness ==
    /\ response.level = "success"
    /\ response.keygen
    /\ \E s \in DOMAIN server : server[s].status = "active"
    /\ \E c \in DOMAIN client : client[c].status = "active"

Instants == 0..(MaxNow + TicksPerDay)

\* C11: for every certificate record and every instant, is_valid is true
\* exactly when the status is active and the instant lies in the validity
\* window, both ends included; it is false for every revoked certificate.
C11_IsValidMeaning ==
    \A kind \in Leaves : \A pk \in DOMAIN Table(kind) : \A t \in Instants :
        LET row == Table(kind)[pk]
        IN  /\ is_valid(row, t)
                = (row.status = "active" /\ row.valid_from <= t /\ t <= row.valid_until)
            /\ row.status = "revoked" => ~is_valid(row, t)

\* the clock stands at the last instant of an active server certificate, next
\* to a revoked client certificate whose window has not elapsed
C11_Witness ==
    /\ \E s \in DOMAIN server : server[s].status = "active" /\ now = server[s].valid_until
    /\ \E c \in DOMAIN client :
          /\ client[c].status = "revoked"
          /\ client[c].valid_from <= now
          /\ now <= client[c].valid_until

\* C12: no step, of a request or of the clock, gives a certificate the status
\* expired or takes an active one anywhere but to revoked; the clock and the
\* page that shows a certificate change no record; an active certificate
\* whose window has elapsed is not valid.
C12_NoExpiredTransition ==
    [][/\ \A kind \in Leaves :
              /\ \A pk \in DOMAIN Table(kind) \cap DOMAIN TableNext(kind) :
                     /\ TableNext(kind)[pk].status # "expired"
                     /\ Table(kind)[pk].status = "active"
                            => TableNext(kind)[pk].status \in {"active", "revoked"}
              /\ \A pk \in DOMAIN TableNext(kind) :
                     (TableNext(kind)[pk].status = "active"
                          /\ TableNext(kind)[pk].valid_until < now')
                     => ~is_valid(TableNext(kind)[pk], now')
       /\ (now' # now \/ response'.context # None) => UNCHANGED <<ca, server, client>>]_vars

\* the page of a server certificate was rendered after its window elapsed,
\* and the certificate is still active
C12_Witness ==
    \E s \in DOMAIN server :
        /\ response.context = Some(s)
        /\ server[s].status = "active"
        /\ server[s].valid_until < now

\* C13: a leaf certificate is valid at the moment its record enters the
\* store.
C13_ValidWhenIssued ==
    [][\A kind \in Leaves :
          \A pk \in DOMAIN TableNext(kind) \ DOMAIN Table(kind) :
              is_valid(TableNext(kind)[pk], now')]_vars

\* a server certificate was just issued by an intermediate CA at an instant
\* that is no whole X.509 time
C13_Witness ==
    /\ response.level = "success"
    /\ response.keygen
    /\ client = << >>
    /\ now % TicksPerDay # 0
    /\ \E s \in DOMAIN server :
          /\ server[s].issuing_ca \in DOMAIN ca
          /\ ca[server[s].issuing_ca].parent_ca # NULL
          /\ server[s].valid_from < now
          /\ is_valid(server[s], now)

Delete(kind, pk) == IF kind = "server" THEN server_cert_delete(pk) ELSE client_cert_delete(pk)

Other(kind) == IF kind = "server" THEN "client" ELSE "server"

\* C14: delete of a server or client certificate succeeds whatever the
\* status, removes that record, with its PKCS#12 bundle and password, and
\* leaves every CA and every other certificate as it was.
C14_LeafDeleteUnconditional ==
    [][\A kind \in Leaves, pk \in PkInputs :
          (pk \in DOMAIN Table(kind) /\ Delete(kind, pk))
          => /\ TableNext(kind) = [k \in DOMAIN Table(kind) \ {pk} |-> Table(kind)[k]]
             /\ TableNext(Other(kind)) = Table(Other(kind))
             /\ ca' = ca
             /\ response'.level = "success"]_vars

\* a delete went through: of the three records created, the store holds a
\* CA and a client certificate with its PKCS#12 bundle and password
C14_Witness ==
    /\ response.level = "success"
    /\ ~response.keygen
    /\ next_pk = MaxPk
    /\ server = << >>
    /\ Cardinality(DOMAIN ca) = 1
    /\ \E c \in DOMAIN client : client[c].p12_bundle # None /\ client[c].id = 2

SixReasons ==
    {"unspecified", "key_compromise", "ca_compromise", "affiliation_changed",
     "superseded", "cessation_of_operation"}

\* C15: in every state a certificate is revoked exactly when its revoked_at
\* is set, and then its reason is one of the six enumerated values; a revoke
\* request with any other reason changes nothing: a step that changes a
\* table or reports success is the step of no such request.
C15_RevocationRecorded ==
    [][/\ \A kind \in Leaves : \A pk \in DOMAIN TableNext(kind) :
              LET row == TableNext(kind)[pk]
              IN  /\ (row.status = "revoked") = (row.revoked_at # NULL)
                  /\ row.status = "revoked" => row.revocation_reason \in SixReasons
       /\ (response'.level = "success" \/ ~UNCHANGED <<ca, server, client>>)
          => \A kind \in Leaves, pk \in PkInputs :
                 \A form \in {f \in RevokeForms : f.reason \notin SixReasons} :
                     ~Revoke(kind, pk, form)]_vars

\* a certificate is revoked for key compromise at the present time, and the
\* last revoke request was refused
C15_Witness ==
    /\ response = Redirect("none", FALSE)
    /\ \E s \in DOMAIN server :
          /\ server[s].status = "revoked"
          /\ server[s].revoked_at = now
          /\ server[s].revocation_reason = "key_compromise"
    /\ \E c \in DOMAIN client : client[c].status = "active" /\ client[c].revoked_at = NULL

\* C16: a step changes a leaf record that stays in the store only in its
\* status, revoked_at and revocation_reason, and such a step is a revoke:
\* the record is revoked after it and every other record is as before.
C16_RevokeFrame ==
    [][\A kind \in Leaves : \A pk \in DOMAIN Table(kind) \cap DOMAIN TableNext(kind) :
          LET old == Table(kind)[pk]
              new == TableNext(kind)[pk]
          IN  new # old
              => /\ new = [old EXCEPT !.status = new.status,
                                       !.revoked_at = new.revoked_at,
                                       !.revocation_reason = new.revocation_reason]
                 /\ new.status = "revoked"
                 /\ ca' = ca
                 /\ TableNext(Other(kind)) = Table(Other(kind))
                 /\ DOMAIN TableNext(kind) = DOMAIN Table(kind)
                 /\ \A k \in DOMAIN Table(kind) \ {pk} : TableNext(kind)[k] = Table(kind)[k]]_vars

\* a client certificate with a PKCS#12 bundle was revoked next to an active
\* server certificate
C16_Witness ==
    /\ response.level = "success"
    /\ ~response.keygen
    /\ \E c \in DOMAIN client :
          /\ client[c].status = "revoked"
          /\ client[c].p12_bundle # None
          /\ CanLoadPrivateKey(client[c].private_key_pem)
    /\ \E s \in DOMAIN server : server[s].status = "active"

StoredCertificate(row) == load_certificate_from_pem(row.certificate_pem)

StoredPrivateKey(row) == load_private_key_from_pem(row.private_key_pem)

\* C17: every CA in the store that has no parent holds a self-signed
\* certificate: its issuer is its own subject, it is signed with the CA's own
\* stored private key (the one matching its public key), isCA is true and
\* the path length is 1.
C17_RootSelfSigned ==
    \A k \in DOMAIN ca :
        ca[k].parent_ca = NULL
        => LET cert == StoredCertificate(ca[k])
               key == StoredPrivateKey(ca[k])
           IN  /\ cert.issuer = cert.subject
               /\ cert.signed_with = key
               /\ cert.public_key = public_key_of(key)
               /\ cert.ca
               /\ cert.path_length = Some(1)

\* two roots of different names are in the store, the second just issued
C17_Witness ==
    /\ response.level = "success"
    /\ response.keygen
    /\ \E j, k \in DOMAIN ca :
          /\ j < k
          /\ k = next_pk
          /\ ca[j].parent_ca = NULL
          /\ ca[k].parent_ca = NULL
          /\ ca[j].common_name # ca[k].common_name

\* C18: every CA in the store that has a parent holds a certificate whose
\* issuer is the subject of the CA recorded as its parent, signed by that
\* parent's stored private key and not by its own, with isCA true and
\* path length 0.
C18_IntermediateSignedByParent ==
    \A k \in DOMAIN ca :
        ca[k].parent_ca # NULL
        => /\ ca[k].parent_ca \in DOMAIN ca
           /\ LET cert == StoredCertificate(ca[k])
                  parent == ca[ca[k].parent_ca]
              IN  /\ cert.issuer = StoredCertificate(parent).subject
                  /\ cert.signed_with = StoredPrivateKey(parent)
                  /\ cert.signed_with # StoredPrivateKey(ca[k])
                  /\ cert.ca
                  /\ cert.path_length = Some(0)

\* a CA under a root and a CA under that CA are both in the store
C18_Witness ==
    \E i, j \in DOMAIN ca :
        /\ ca[i].parent_ca # NULL
        /\ ca[j].parent_ca = i
        /\ ca[ca[i].parent_ca].parent_ca = NULL

\* C19: every server and client certificate in the store is signed by the
\* stored private key of the CA recorded as its issuing_ca, names that CA's
\* subject as its issuer, and has isCA false.
C19_LeafSignedByIssuingCa ==
    \A kind \in Leaves : \A pk \in DOMAIN Table(kind) :
        LET row == Table(kind)[pk]
            cert == StoredCertificate(row)
        IN  /\ row.issuing_ca \in DOMAIN ca
            /\ cert.signed_with = StoredPrivateKey(ca[row.issuing_ca])
            /\ cert.issuer = StoredCertificate(ca[row.issuing_ca]).subject
            /\ ~cert.ca

\* a client certificate has just been issued by a CA that has a parent, so
\* the signing key is the intermediate's and not the root's
C19_Witness ==
    /\ response.level = "success"
    /\ response.keygen
    /\ \E c \in DOMAIN client :
          LET issuer == ca[client[c].issuing_ca]
          IN  /\ c = next_pk
              /\ issuer.parent_ca # NULL
              /\ StoredPrivateKey(issuer) # StoredPrivateKey(ca[issuer.parent_ca])

\* C20: for every CA in the store, is_root is true exactly when no parent CA
\* is set.
C20_IsRootIffNoParent ==
    \A k \in DOMAIN ca : ca[k].is_root <=> (ca[k].parent_ca = NULL)

\* a root and a CA under it are in the store, and the CA under it is not
\* marked as a root
C20_Witness ==
    \E j, k \in DOMAIN ca :
        /\ ca[k].parent_ca = j
        /\ ca[j].is_root
        /\ ~ca[k].is_root

Bodies(text) == {text[i].body : i \in 1..Len(text)}

DnsEntry(value) == [type |-> "DNS", value |-> value]

\* C21: the SAN list of every stored server certificate holds the DNS entry
\* of its common_name at exactly one position, whatever its san_dns_names
\* text lists, and holds the DNS entry of every other non-empty name of
\* that text.
C21_CommonNameOnceInSan ==
    \A s \in DOMAIN server :
        LET san == StoredCertificate(server[s]).san
            cn == server[s].common_name
        IN  /\ Cardinality({i \in 1..Len(san) : san[i] = DnsEntry(cn)}) = 1
            /\ \A body \in Bodies(server[s].san_dns_names) \ {"", cn} :
                  \E i \in 1..Len(san) : san[i] = DnsEntry(body)

\* a certificate whose text lists its common_name twice, another name and
\* an empty piece is in the store
C21_Witness ==
    \E s \in DOMAIN server :
        LET text == server[s].san_dns_names
        IN  /\ Cardinality({i \in 1..Len(text) : text[i].body = server[s].common_name}) = 2
            /\ "" \in Bodies(text)
            /\ Bodies(text) \ {"", server[s].common_name} # {}

\* C22 as stated, an empty entry counted as one that is no valid literal:
\* no server certificate is stored from a list of addresses that has an
\* entry, between or after addresses, that is no valid IPv4/IPv6 literal.
C22_EveryIpEntryValid ==
    \A s \in DOMAIN server :
        LET bodies == Bodies(server[s].san_ip_addresses)
        IN  bodies \ {""} # {} => \A body \in bodies : CanParseIp(body)

\* C22: an issuance whose san_ip_addresses has a non-empty piece that is no
\* valid IPv4/IPv6 literal, at any position, ends in an error and stores no
\* server certificate: no stored certificate has such a piece, and a step
\* that stores a server certificate is answered with success.  Empty pieces
\* are skipped and make no issuance fail.
C22_InvalidIpRefused ==
    [][/\ \A s \in DOMAIN server' :
             \A body \in Bodies(server'[s].san_ip_addresses) \ {""} : CanParseIp(body)
       /\ response'.status = 500 => server' = server]_vars

\* an issuance has just failed after key generation and stored nothing
C22_Witness ==
    /\ response = Resp(500, "none", TRUE)
    /\ server = << >>
    /\ ca # << >>

\* an issuance with an empty piece among valid addresses has succeeded
C22_EmptyPieceWitness ==
    \E s \in DOMAIN server :
        /\ "" \in Bodies(server[s].san_ip_addresses)
        /\ Bodies(server[s].san_ip_addresses) \ {""} # {}

\* C23: the certificate_chain_pem of every stored server certificate is its
\* own certificate PEM followed by the certificate PEM of the CA recorded as
\* its issuing_ca, and nothing else: two certificates, also when the issuer
\* has a parent.
C23_ChainIsLeafThenIssuer ==
    \A s \in DOMAIN server :
        /\ server[s].certificate_chain_pem
               = server[s].certificate_pem \o ca[server[s].issuing_ca].certificate_pem
        /\ Len(server[s].certificate_chain_pem) = 2
        /\ server[s].certificate_chain_pem[1].der = StoredCertificate(server[s])
        /\ server[s].certificate_chain_pem[2].der = StoredCertificate(ca[server[s].issuing_ca])

\* a server certificate issued by a CA that has a parent is in the store; its
\* chain ends with the intermediate, not with the root
C23_Witness ==
    \E s \in DOMAIN server :
        LET issuer == ca[server[s].issuing_ca]
        IN  /\ issuer.parent_ca # NULL
            /\ server[s].certificate_chain_pem[2].der.subject
                   # StoredCertificate(ca[issuer.parent_ca]).subject

\* the row is as a request with generate_p12 leaves it: the bundle holds the
\* row's certificate, its key and the issuing CA's certificate and is
\* protected by the stored password, which is not empty
HoldsBundle(row) ==
    /\ row.p12_bundle # None
    /\ row.p12_password # << >>
    /\ row.p12_bundle[1].cert = StoredCertificate(row)
    /\ row.p12_bundle[1].key = StoredPrivateKey(row)
    /\ row.p12_bundle[1].cas = <<StoredCertificate(ca[row.issuing_ca])>>
    /\ row.p12_bundle[1].encrypted_with = row.p12_password

HoldsNoBundle(row) == row.p12_bundle = None /\ row.p12_password = << >>

\* C24: every stored client certificate either holds a bundle of its own
\* certificate, its key and its issuing CA's certificate, protected by the
\* non-empty password stored with it, or holds neither bundle nor password;
\* the record a request stores holds the bundle exactly when the request
\* asked for it; and no later step changes either field.
C24_BundleAsRequested ==
    [][/\ \A c \in DOMAIN client' : HoldsBundle(client'[c]) \/ HoldsNoBundle(client'[c])
       /\ \A c \in DOMAIN client' \ DOMAIN client :
             \A form \in BundleClientForms, fault \in {"none", "p12"} :
                 client_cert_create(form, fault)
                 => IF form.generate_p12 THEN HoldsBundle(client'[c])
                    ELSE HoldsNoBundle(client'[c])
       /\ \A c \in DOMAIN client' \cap DOMAIN client :
             /\ client'[c].p12_bundle = client[c].p12_bundle
             /\ client'[c].p12_password = client[c].p12_password]_vars

\* a certificate with a bundle and one without are in the store, under the
\* same CA, and the one with the bundle has been revoked since
C24_Witness ==
    \E b, c \in DOMAIN client :
        /\ HoldsBundle(client[b])
        /\ HoldsNoBundle(client[c])
        /\ client[b].issuing_ca = client[c].issuing_ca
        /\ client[b].status = "revoked"

\* the window of the stored row is that of its signed certificate
WindowOfCertificate(row) ==
    /\ row.valid_from = StoredCertificate(row).not_valid_before
    /\ row.valid_until = StoredCertificate(row).not_valid_after

\* the rows a step adds, each with the validity_days of the request that
\* the step serves
Issued ==
    {[row |-> ca'[k], days |-> form.validity_days] :
        k \in DOMAIN ca' \ DOMAIN ca,
        form \in {f \in WindowCaForms : ca_create(f, "none")}}
    \cup {[row |-> server'[k], days |-> form.validity_days] :
        k \in DOMAIN server' \ DOMAIN server,
        form \in {f \in WindowServerForms : server_cert_create(f, "none")}}
    \cup {[row |-> client'[k], days |-> form.validity_days] :
        k \in DOMAIN client' \ DOMAIN client,
        form \in {f \in WindowClientForms : client_cert_create(f, "none")}}

\* C25 as stated: the valid_from of a row a step adds is the instant of the
\* step, its valid_until is valid_from plus the requested days, and the
\* window is that of the signed certificate.
C25_WindowFromInstant ==
    [][\A i \in Issued :
          /\ i.row.valid_from = now
          /\ i.row.valid_until = i.row.valid_from + i.days * TicksPerDay
          /\ WindowOfCertificate(i.row)]_vars

\* C25: the valid_from of a row a step adds is the instant of the step less
\* its fraction below the unit of X.509 times, so never later than the
\* instant and less than a unit before it; its valid_until is valid_from
\* plus exactly the requested days; and the stored window of every CA,
\* server and client certificate is that of its signed certificate.
C25_WindowFromIssuance ==
    [][/\ \A i \in Issued :
             /\ i.row.valid_from = x509_time(now)
             /\ i.row.valid_from <= now
             /\ now < i.row.valid_from + TicksPerDay
             /\ i.row.valid_until = i.row.valid_from + i.days * TicksPerDay
       /\ \A k \in DOMAIN ca' : WindowOfCertificate(ca'[k])
       /\ \A kind \in Leaves : \A k \in DOMAIN TableNext(kind) :
             WindowOfCertificate(TableNext(kind)[k])]_vars

\* a CA issued for two days at an instant with a fraction, and a server
\* certificate issued later for one day at an instant without one
C25_Witness ==
    /\ \E k \in DOMAIN ca :
          /\ ca[k].valid_until = ca[k].valid_from + (MinValidityDays + 1) * TicksPerDay
          /\ ca[k].valid_from = x509_time(TicksPerDay + 1)
    /\ \E s \in DOMAIN server :
          /\ server[s].valid_until = server[s].valid_from + MinValidityDays * TicksPerDay
          /\ server[s].valid_from = now
    /\ response.level = "success"

\* every CA row that stays in the store stays as it is
CaRowsKept == \A k \in DOMAIN ca \cap DOMAIN ca' : ca'[k] = ca[k]

\* every CA row that leaves the store is the one a ca_delete request names
CaLeavesByOwnDelete ==
    \A k \in DOMAIN ca \ DOMAIN ca' :
        \E w \in Workers :
            /\ req[w].pc = "delete"
            /\ req[w].view = "ca_delete"
            /\ req[w].pk = k
            /\ req'[w].pc = "idle"

\* C26: no step changes the certificate, private key, validity window,
\* parent or is_root (or any other field) of a CA row that is in the store,
\* and a CA row leaves the store only in the step that completes the
\* ca_delete request naming it.
C26_CaImmutable == [][CaRowsKept /\ CaLeavesByOwnDelete]_vars

\* C27: in every state, also while two ca_create requests with one name are
\* in flight together, no two CA rows have the same name.
C27_CaNamesUnique ==
    \A j, k \in DOMAIN ca : ca[j].name = ca[k].name => j = k

\* two ca_create requests with the same name both passed validation; one has
\* saved its row and the other is about to save
C27_Witness ==
    \E w \in Workers : \E k \in DOMAIN ca :
        /\ req[w].pc = "save"
        /\ req[w].view = "ca_create"
        /\ req[w].obj[1].name = ca[k].name
        /\ req[w].pk # k

\* C28: a server or client certificate that has been deleted stays absent:
\* every row that enters a table carries a primary key that had not been
\* handed out before the step, so no step brings back a row that was in the
\* table and was deleted, also not the save of a revoke request that loaded
\* the row before its deletion.
C28_DeletedStaysAbsent ==
    [][\A kind \in Leaves :
          \A k \in DOMAIN TableNext(kind) \ DOMAIN Table(kind) : k > next_pk]_vars

\* C29: a certificate returned by generate_ca_certificate carries an
\* Authority Key Identifier, derived from the parent's public key, exactly
\* when it is an intermediate (issuer the parent's subject, signed with the
\* parent's key, pathLength 0); a self-signed certificate with pathLength 1
\* carries none, whether the call was given parent_cert and parent_key,
\* neither, or only one of them.
C29_AkiIffIntermediate ==
    response.level = "returned"
    => LET r == response.context[1]
           cert == r.certificate
           intermediate ==
               /\ r.parent_cert # None
               /\ r.parent_key # None
               /\ cert.issuer = r.parent_cert[1].subject
               /\ cert.signed_with = r.parent_key[1]
               /\ cert.path_length = Some(0)
           self_signed ==
               /\ cert.issuer = cert.subject
               /\ cert.signed_with = r.private_key
               /\ cert.path_length = Some(1)
       IN  /\ cert.aki # None <=> intermediate
           /\ cert.aki # None => cert.aki = Some(r.parent_cert[1].public_key)
           /\ self_signed => cert.aki = None

\* the server and client certificates that reference the CA, of any status
LeafDependents(pk) ==
    {[kind |-> "server", row |-> server[s]] : s \in {k \in DOMAIN server : server[k].issuing_ca = pk}}
        \cup {[kind |-> "client", row |-> client[c]] : c \in {k \in DOMAIN client : client[k].issuing_ca = pk}}

HasLeafDependent(pk) ==
    \/ \E s \in DOMAIN server : server[s].issuing_ca = pk
    \/ \E c \in DOMAIN client : client[c].issuing_ca = pk

====
